---- MODULE Spec2Model ----
(***************************************************************************)
(* Aircraft maintenance dashboard (src/app.py).  The script is run top to  *)
(* bottom: it loads maintenance_data.csv into the global DataFrame df and  *)
(* derives the summary KPIs, the per-month and per-ATA removal series, the *)
(* Pareto series, the average downtime, the reliability trends and the     *)
(* component detail from it.  Each section of the script is one action;    *)
(* pc is the section the script is about to run.                           *)
(*                                                                         *)
(* A pandas Series is a sequence of [index, value] entries (its order is   *)
(* the Series' order); a DataFrame is [columns, rows], a row being a       *)
(* function from column names to cells.  A float64 is a fraction           *)
(* [num, den]: den = 0 stands for the IEEE results of a division by zero   *)
(* (0/0 = NaN, n/0 = inf).  A Python str whose characters matter (dates,   *)
(* the str() of an ATA chapter) is a sequence of characters.               *)
(***************************************************************************)
EXTENDS Integers, Sequences, FiniteSets

VARIABLES
    csv,                 \* content of maintenance_data.csv: [header, records]
    pc,                  \* section of the script to run next
    df,                  \* the global DataFrame
    total_unsc_removal, total_components, total_downtime,
    mtbur, best_idx, worst_idx,
    monthly_failure, failure_per_ata,
    pareto, cumulative_percent,
    avg_downtime,
    components, trend,   \* multiselect value; component -> its plotted trend
    selected_comp, comp_data,
    comp_total_removal, comp_total_downtime, comp_mtbur, monthly_trend

vars == <<csv, pc, df, total_unsc_removal, total_components, total_downtime,
          mtbur, best_idx, worst_idx, monthly_failure, failure_per_ata,
          pareto, cumulative_percent, avg_downtime, components, trend,
          selected_comp, comp_data, comp_total_removal, comp_total_downtime,
          comp_mtbur, monthly_trend>>

-----------------------------------------------------------------------------
(* Bounds of the input file *)

MaxRows == 2

\* component names of the data, listed in str order (the order groupby sorts by)
ComponentNames == <<"A", "B", "C">>

\* the ATA chapter of each component type; A and C belong to the same chapter
AtaChapterOf(name) == IF name = "B" THEN 5 ELSE 21

Date_Jan15 == <<"2","0","2","4","-","0","1","-","1","5">>
Date_Feb10 == <<"2","0","2","4","-","0","2","-","1","0">>

\* (failure_date, hours_since_install) of an observation
Observations == {<<Date_Jan15, 50>>, <<Date_Feb10, 100>>}

\* grounded hours of an observation: none without a removal
DowntimeOf(removal) == IF removal = 1 THEN 3 ELSE 0

Header == <<"component_name", "ata_chapter", "failure_date",
            "hours_since_install", "unscheduled_removal", "downtime_hours">>

\* one line of the file, its fields in header order
Lines ==
    { <<n, AtaChapterOf(n), o[1], o[2], u, DowntimeOf(u)>> :
        n \in {ComponentNames[i] : i \in 1..Len(ComponentNames)},
        o \in Observations, u \in 0..1 }

RECURSIVE SeqsUpTo(_, _)
SeqsUpTo(S, n) ==
    IF n = 0 THEN {<<>>}
    ELSE LET shorter == SeqsUpTo(S, n - 1)
         IN  shorter \cup {Append(s, x) : s \in {t \in shorter : Len(t) = n - 1}, x \in S}

\* the table of the specification's worked example (A: three rows, B: one row)
ExampleRecords ==
    << <<"B", 5, Date_Feb10, 80, 0, 0>>,
       <<"A", 21, Date_Jan15, 100, 1, 5>>,
       <<"A", 21, Date_Jan15, 50, 0, 0>>,
       <<"A", 21, Date_Feb10, 200, 1, 3>> >>

\* the files the script is run on: every table of at most MaxRows lines, and
\* the worked example
Files ==
    { [header |-> Header, records |-> r] :
        r \in SeqsUpTo(Lines, MaxRows) \cup {ExampleRecords} }

-----------------------------------------------------------------------------
(* Python and pandas primitives *)

Max(a, b) == IF a >= b THEN a ELSE b

RECURSIVE SeqSum(_)
SeqSum(s) == IF s = <<>> THEN 0 ELSE s[1] + SeqSum(Tail(s))

\* float64 values
Float(n) == [num |-> n, den |-> 1]
TrueDiv(a, b) == [num |-> a, den |-> b]
FloatTimes(f, k) == [num |-> f.num * k, den |-> f.den]
IsFinite(f) == f.den # 0
FloatEq(f, g) == IsFinite(f) /\ IsFinite(g) /\ f.num * g.den = g.num * f.den
FloatLess(f, g) == IsFinite(f) /\ IsFinite(g) /\ f.num * g.den < g.num * f.den
FloatGeq(f, g) == IsFinite(f) /\ IsFinite(g) /\ f.num * g.den >= g.num * f.den
\* >= on the values of a Series of the dtype
ValueGeq(dtype, a, b) == IF dtype = "int64" THEN a >= b ELSE FloatGeq(a, b)

\* str order
Position(seq, x) == CHOOSE i \in 1..Len(seq) : seq[i] = x
NameLess(a, b) == Position(ComponentNames, a) < Position(ComponentNames, b)

Digits == <<"0", "1", "2", "3", "4", "5", "6", "7", "8", "9">>
CharOrder == <<"-">> \o Digits
RECURSIVE CharsLess(_, _)
CharsLess(s, t) ==
    IF t = <<>> THEN FALSE
    ELSE IF s = <<>> THEN TRUE
    ELSE IF s[1] # t[1] THEN Position(CharOrder, s[1]) < Position(CharOrder, t[1])
    ELSE CharsLess(Tail(s), Tail(t))

\* str(n) and int(s) for n >= 0
RECURSIVE str(_)
str(n) == IF n < 10 THEN <<Digits[n + 1]>> ELSE Append(str(n \div 10), Digits[(n % 10) + 1])
RECURSIVE int(_)
int(s) ==
    IF s = <<>> THEN 0
    ELSE 10 * int(SubSeq(s, 1, Len(s) - 1)) + (Position(Digits, s[Len(s)]) - 1)

\* cells of the ata_chapter column: int64 as parsed, object (str) after astype(str)
IntCell(n) == [dtype |-> "int64", v |-> <<n>>]
StrCell(s) == [dtype |-> "object", v |-> s]
astype_str(cell) == IF cell.dtype = "int64" THEN StrCell(str(cell.v[1])) ELSE cell
AtaLess(a, b) == CharsLess(a.v, b.v)

\* pd.read_csv: one row per record, keyed by the header; numeric columns parsed
read_csv(file) ==
    [columns |-> file.header,
     rows |-> [i \in 1..Len(file.records) |->
                 [c \in {file.header[k] : k \in 1..Len(file.header)} |->
                    LET x == file.records[i][Position(file.header, c)]
                    IN  IF c = "ata_chapter" THEN IntCell(x) ELSE x]]]

NoFrame == [columns |-> <<>>, rows |-> <<>>]

\* df[col] as the sequence of its cells
Column(rows, col) == [i \in 1..Len(rows) |-> rows[i][col]]
ColumnSum(rows, col) == SeqSum(Column(rows, col))
KeySet(rows, col) == {rows[i][col] : i \in 1..Len(rows)}
\* mutant: count() in place of nunique()
nunique_CountsRows(rows, col) == Len(rows)
nunique(rows, col) == Cardinality(KeySet(rows, col))

\* Series.unique(): the distinct values in order of first appearance
RECURSIVE unique(_)
unique(s) ==
    IF s = <<>> THEN <<>>
    ELSE LET front == unique(SubSeq(s, 1, Len(s) - 1))
             last == s[Len(s)]
         IN  IF \E i \in 1..Len(front) : front[i] = last THEN front ELSE Append(front, last)

\* df[df[col] == key]
Filter(rows, col, key) == SelectSeq(rows, LAMBDA r : r[col] = key)

\* the order of the keys of a column: str order of the names, and of the
\* chapters once they are str
KeyLess(col, a, b) == IF col = "ata_chapter" THEN AtaLess(a, b) ELSE NameLess(a, b)

\* the keys of a groupby (sort=True): ascending
SortedKeys(S, col) ==
    [i \in 1..Cardinality(S) |->
       CHOOSE x \in S : Cardinality({y \in S : KeyLess(col, y, x)}) = i - 1]

Entry(k, x) == [index |-> k, value |-> x]
IndexOf(series) == [i \in 1..Len(series) |-> series[i].index]
ValuesOf(series) == [i \in 1..Len(series) |-> series[i].value]
Lookup(series, k) == series[CHOOSE i \in 1..Len(series) : series[i].index = k].value

\* df.groupby(col)[valcol].sum()
GroupSum(rows, col, valcol) ==
    LET keys == SortedKeys(KeySet(rows, col), col)
    IN  [i \in 1..Len(keys) |-> Entry(keys[i], ColumnSum(Filter(rows, col, keys[i]), valcol))]

\* df.groupby(col)[valcol].mean()
GroupMean(rows, col, valcol) ==
    LET keys == SortedKeys(KeySet(rows, col), col)
    IN  [i \in 1..Len(keys) |->
           LET g == Filter(rows, col, keys[i])
           IN  Entry(keys[i], TrueDiv(ColumnSum(g, valcol), Len(g)))]

\* mutant: the last occurrence of the maximum
idxmax_LastOccurrence(series) ==
    series[CHOOSE i \in 1..Len(series) :
              /\ \A j \in 1..Len(series) : ~FloatLess(series[i].value, series[j].value)
              /\ \A j \in (i + 1)..Len(series) : FloatLess(series[j].value, series[i].value)].index

\* Series.idxmax() / idxmin(): the label of the first occurrence of the extreme
idxmax(series) ==
    series[CHOOSE i \in 1..Len(series) :
              /\ \A j \in 1..Len(series) : ~FloatLess(series[i].value, series[j].value)
              /\ \A j \in 1..(i - 1) : FloatLess(series[j].value, series[i].value)].index
idxmin(series) ==
    series[CHOOSE i \in 1..Len(series) :
              /\ \A j \in 1..Len(series) : ~FloatLess(series[j].value, series[i].value)
              /\ \A j \in 1..(i - 1) : FloatLess(series[i].value, series[j].value)].index

\* Series.sort_values(ascending=False) with the default kind='quicksort', which
\* is not a stable sort: every descending arrangement is a possible result
Orderings(n) == {p \in [1..n -> 1..n] : \A i, j \in 1..n : p[i] = p[j] => i = j}
sort_values(series, dtype) ==
    { [i \in 1..Len(series) |-> series[p[i]]] :
        p \in {q \in Orderings(Len(series)) :
                 \A i, j \in 1..Len(series) :
                    i < j => ValueGeq(dtype, series[q[i]].value, series[q[j]].value)} }

\* Series.cumsum()
RECURSIVE cumsum(_)
cumsum(series) ==
    IF series = <<>> THEN <<>>
    ELSE LET front == cumsum(SubSeq(series, 1, Len(series) - 1))
             last == series[Len(series)]
         IN  Append(front, Entry(last.index,
                 last.value + (IF front = <<>> THEN 0 ELSE front[Len(front)].value)))

\* pd.to_datetime on a YYYY-MM-DD string, and .dt.strftime('%b')
month_order == <<"Jan", "Feb", "Mar", "Apr", "May", "Jun",
                 "Jul", "Aug", "Sep", "Oct", "Nov", "Dec">>
to_datetime(s) ==
    [year |-> int(SubSeq(s, 1, 4)), month |-> int(SubSeq(s, 6, 7)), day |-> int(SubSeq(s, 9, 10))]
strftime_b(ts) == month_order[ts.month]
\* pd.Categorical(values, categories): a value outside the categories is NaN
Categorical(x, categories) ==
    IF \E i \in 1..Len(categories) : categories[i] = x THEN x ELSE "NaN"

\* mutant: the frame is first cut down to its removal rows
SetColumn_RemovalRowsOnly(frame, col, values) ==
    LET kept == SelectSeq([i \in 1..Len(frame.rows) |-> i],
                          LAMBDA i : frame.rows[i]["unscheduled_removal"] = 1)
    IN  [columns |-> IF \E k \in 1..Len(frame.columns) : frame.columns[k] = col
                     THEN frame.columns ELSE Append(frame.columns, col),
         rows |-> [n \in 1..Len(kept) |->
                     [c \in (DOMAIN frame.rows[kept[n]]) \cup {col} |->
                        IF c = col THEN values[kept[n]] ELSE frame.rows[kept[n]][c]]]]

\* df[col] = values: the column is replaced, or appended when it is new
SetColumn(frame, col, values) ==
    [columns |-> IF \E k \in 1..Len(frame.columns) : frame.columns[k] = col
                 THEN frame.columns ELSE Append(frame.columns, col),
     rows |-> [i \in 1..Len(frame.rows) |->
                 [c \in (DOMAIN frame.rows[i]) \cup {col} |->
                    IF c = col THEN values[i] ELSE frame.rows[i][c]]]]

-----------------------------------------------------------------------------
(* The sections of the script *)

\* mutant: the denominator is not floored to 1
MtburOfGroup_NoFloor(x) ==
    TrueDiv(ColumnSum(x, "hours_since_install"), ColumnSum(x, "unscheduled_removal"))

\* lines 29-30: the lambda applied to one group
MtburOfGroup(x) ==
    TrueDiv(ColumnSum(x, "hours_since_install"), Max(ColumnSum(x, "unscheduled_removal"), 1))

\* lines 29-30: df.groupby('component_name').apply(lambda ...)
MtburSeries(rows) ==
    LET keys == SortedKeys(KeySet(rows, "component_name"), "component_name")
    IN  [i \in 1..Len(keys) |->
           Entry(keys[i], MtburOfGroup(Filter(rows, "component_name", keys[i])))]

\* mutant: strftime('%B'), the full month name, which is no category
MonthColumn_FullMonthName(frame) ==
    [i \in 1..Len(frame.rows) |->
       Categorical(<<"January", "February">>[to_datetime(frame.rows[i]["failure_date"]).month],
                   month_order)]

\* lines 52-55: the month column
MonthColumn(frame) ==
    [i \in 1..Len(frame.rows) |->
       Categorical(strftime_b(to_datetime(frame.rows[i]["failure_date"])), month_order)]

\* lines 56, 190, 262: groupby('month')['unscheduled_removal'].sum() on the
\* categorical month column: one entry per category, Jan to Dec
MonthlySum(rows) ==
    [i \in 1..Len(month_order) |->
       Entry(month_order[i],
             ColumnSum(Filter(rows, "month", month_order[i]), "unscheduled_removal"))]

\* line 72: the ata_chapter column as str
AtaColumn(frame) ==
    [i \in 1..Len(frame.rows) |-> astype_str(frame.rows[i]["ata_chapter"])]

\* mutant: sort_values() with the default ascending=True
ParetoSeries_Ascending(rows) ==
    LET totals == GroupSum(rows, "component_name", "unscheduled_removal")
    IN  { [i \in 1..Len(totals) |-> totals[p[i]]] :
            p \in {q \in Orderings(Len(totals)) :
                     \A i, j \in 1..Len(totals) :
                        i < j => totals[q[i]].value <= totals[q[j]].value} }

\* line 85: the possible results of the descending sort of the removal totals
ParetoSeries(rows) ==
    sort_values(GroupSum(rows, "component_name", "unscheduled_removal"), "int64")

\* mutant: each component's own share, the running sum left out
CumulativePercent_NoCumsum(series) ==
    LET total == SeqSum(ValuesOf(series))
    IN  [i \in 1..Len(series) |->
           Entry(series[i].index, FloatTimes(TrueDiv(series[i].value, total), 100))]

\* line 87: pareto.cumsum() / pareto.sum() * 100
CumulativePercent(series) ==
    LET running == cumsum(series)
        total == SeqSum(ValuesOf(series))
    IN  [i \in 1..Len(series) |->
           Entry(series[i].index, FloatTimes(TrueDiv(running[i].value, total), 100))]

\* lines 188, 237: df['component_name'].unique()
ComponentOptions(frame) == unique(Column(frame.rows, "component_name"))

\* mutant: the denominator of the component's MTBUR is not floored to 1
DetailOf_NoFloor(frame, comp) ==
    LET data == Filter(frame.rows, "component_name", comp)
    IN  [comp_data |-> data,
         total_removal |-> ColumnSum(data, "unscheduled_removal"),
         total_downtime |-> ColumnSum(data, "downtime_hours"),
         comp_mtbur |-> TrueDiv(ColumnSum(data, "hours_since_install"),
                                ColumnSum(data, "unscheduled_removal")),
         monthly_trend |-> MonthlySum(data)]

\* lines 238-243, 262: the detail of one component
DetailOf(frame, comp) ==
    LET data == Filter(frame.rows, "component_name", comp)
    IN  [comp_data |-> data,
         total_removal |-> ColumnSum(data, "unscheduled_removal"),
         total_downtime |-> ColumnSum(data, "downtime_hours"),
         comp_mtbur |-> TrueDiv(ColumnSum(data, "hours_since_install"),
                                Max(ColumnSum(data, "unscheduled_removal"), 1)),
         monthly_trend |-> MonthlySum(data)]

Unset ==
    /\ df = NoFrame
    /\ total_unsc_removal = 0 /\ total_components = 0 /\ total_downtime = 0
    /\ mtbur = <<>> /\ best_idx = "" /\ worst_idx = ""
    /\ monthly_failure = <<>> /\ failure_per_ata = <<>>
    /\ pareto = <<>> /\ cumulative_percent = <<>> /\ avg_downtime = <<>>
    /\ components = {} /\ trend = <<>>
    /\ selected_comp = "" /\ comp_data = <<>>
    /\ comp_total_removal = 0 /\ comp_total_downtime = 0
    /\ comp_mtbur = Float(0) /\ monthly_trend = <<>>

Init ==
    /\ csv \in Files
    /\ pc = "load"
    /\ Unset

\* line 17
LoadDataset ==
    /\ pc = "load"
    /\ df' = read_csv(csv)
    /\ pc' = "kpis"
    /\ UNCHANGED <<csv, total_unsc_removal, total_components, total_downtime,
                   mtbur, best_idx, worst_idx, monthly_failure, failure_per_ata,
                   pareto, cumulative_percent, avg_downtime, components, trend,
                   selected_comp, comp_data, comp_total_removal, comp_total_downtime,
                   comp_mtbur, monthly_trend>>

\* lines 24-42: idxmax raises on the empty result of an empty table
SummaryKPIs ==
    /\ pc = "kpis"
    /\ total_unsc_removal' = ColumnSum(df.rows, "unscheduled_removal")
    /\ total_components' = nunique(df.rows, "component_name")
    /\ total_downtime' = ColumnSum(df.rows, "downtime_hours")
    /\ mtbur' = MtburSeries(df.rows)
    /\ IF mtbur' = <<>>
       THEN /\ pc' = "exception"
            /\ UNCHANGED <<best_idx, worst_idx>>
       ELSE /\ best_idx' = idxmax(mtbur')
            /\ worst_idx' = idxmin(mtbur')
            /\ pc' = "month"
    /\ UNCHANGED <<csv, df, monthly_failure, failure_per_ata,
                   pareto, cumulative_percent, avg_downtime, components, trend,
                   selected_comp, comp_data, comp_total_removal, comp_total_downtime,
                   comp_mtbur, monthly_trend>>

\* lines 52-56
RemovalPerMonth ==
    /\ pc = "month"
    /\ df' = SetColumn(df, "month", MonthColumn(df))
    /\ monthly_failure' = MonthlySum(df'.rows)
    /\ pc' = "ata"
    /\ UNCHANGED <<csv, total_unsc_removal, total_components, total_downtime,
                   mtbur, best_idx, worst_idx, failure_per_ata,
                   pareto, cumulative_percent, avg_downtime, components, trend,
                   selected_comp, comp_data, comp_total_removal, comp_total_downtime,
                   comp_mtbur, monthly_trend>>

\* lines 72-73
RemovalPerATA ==
    /\ pc = "ata"
    /\ df' = SetColumn(df, "ata_chapter", AtaColumn(df))
    /\ failure_per_ata' = GroupSum(df'.rows, "ata_chapter", "unscheduled_removal")
    /\ pc' = "pareto"
    /\ UNCHANGED <<csv, total_unsc_removal, total_components, total_downtime,
                   mtbur, best_idx, worst_idx, monthly_failure,
                   pareto, cumulative_percent, avg_downtime, components, trend,
                   selected_comp, comp_data, comp_total_removal, comp_total_downtime,
                   comp_mtbur, monthly_trend>>

\* lines 85-87
ParetoChart ==
    /\ pc = "pareto"
    /\ pareto' \in ParetoSeries(df.rows)
    /\ cumulative_percent' = CumulativePercent(pareto')
    /\ pc' = "mttr"
    /\ UNCHANGED <<csv, df, total_unsc_removal, total_components, total_downtime,
                   mtbur, best_idx, worst_idx, monthly_failure, failure_per_ata,
                   avg_downtime, components, trend,
                   selected_comp, comp_data, comp_total_removal, comp_total_downtime,
                   comp_mtbur, monthly_trend>>

\* lines 136-137
AverageDowntime ==
    /\ pc = "mttr"
    /\ avg_downtime' \in sort_values(
           GroupMean(df.rows, "component_name", "downtime_hours"), "float64")
    /\ pc' = "trend"
    /\ UNCHANGED <<csv, df, total_unsc_removal, total_components, total_downtime,
                   mtbur, best_idx, worst_idx, monthly_failure, failure_per_ata,
                   pareto, cumulative_percent, components, trend,
                   selected_comp, comp_data, comp_total_removal, comp_total_downtime,
                   comp_mtbur, monthly_trend>>

\* lines 188-190: one trend per component chosen in the multiselect
ReliabilityTrend ==
    /\ pc = "trend"
    /\ \E chosen \in SUBSET {ComponentOptions(df)[i] : i \in 1..Len(ComponentOptions(df))} :
          /\ components' = chosen
          /\ trend' = [comp \in chosen |->
                          MonthlySum(Filter(df.rows, "component_name", comp))]
    /\ pc' = "detail"
    /\ UNCHANGED <<csv, df, total_unsc_removal, total_components, total_downtime,
                   mtbur, best_idx, worst_idx, monthly_failure, failure_per_ata,
                   pareto, cumulative_percent, avg_downtime,
                   selected_comp, comp_data, comp_total_removal, comp_total_downtime,
                   comp_mtbur, monthly_trend>>

\* lines 238-243, 262 for the component the selectbox returned
ShowDetail(comp) ==
    LET detail == DetailOf(df, comp)
    IN  /\ selected_comp' = comp
        /\ comp_data' = detail.comp_data
        /\ comp_total_removal' = detail.total_removal
        /\ comp_total_downtime' = detail.total_downtime
        /\ comp_mtbur' = detail.comp_mtbur
        /\ monthly_trend' = detail.monthly_trend

\* lines 237-271: the selectbox offers the component names of the table
ComponentDetail ==
    /\ pc = "detail"
    /\ \E i \in 1..Len(ComponentOptions(df)) : ShowDetail(ComponentOptions(df)[i])
    /\ pc' = "done"
    /\ UNCHANGED <<csv, df, total_unsc_removal, total_components, total_downtime,
                   mtbur, best_idx, worst_idx, monthly_failure, failure_per_ata,
                   pareto, cumulative_percent, avg_downtime, components, trend>>

\* a widget interaction (or a reload after an exception) runs the script again
Rerun ==
    /\ pc \in {"done", "exception"}
    /\ pc' = "load"
    /\ df' = NoFrame
    /\ total_unsc_removal' = 0 /\ total_components' = 0 /\ total_downtime' = 0
    /\ mtbur' = <<>> /\ best_idx' = "" /\ worst_idx' = ""
    /\ monthly_failure' = <<>> /\ failure_per_ata' = <<>>
    /\ pareto' = <<>> /\ cumulative_percent' = <<>> /\ avg_downtime' = <<>>
    /\ components' = {} /\ trend' = <<>>
    /\ selected_comp' = "" /\ comp_data' = <<>>
    /\ comp_total_removal' = 0 /\ comp_total_downtime' = 0
    /\ comp_mtbur' = Float(0) /\ monthly_trend' = <<>>
    /\ UNCHANGED csv

Next ==
    \/ LoadDataset
    \/ SummaryKPIs
    \/ RemovalPerMonth
    \/ RemovalPerATA
    \/ ParetoChart
    \/ AverageDowntime
    \/ ReliabilityTrend
    \/ ComponentDetail
    \/ Rerun

Spec == Init /\ [][Next]_vars

-----------------------------------------------------------------------------
(* The component detail as a function of the table and of any component    *)
(* name, also one the table does not hold: the frame is the one the detail *)
(* section reads (month and str ata_chapter columns set).                  *)

AnyComponent == {ComponentNames[i] : i \in 1..Len(ComponentNames)} \cup {"X"}

DetailInit ==
    /\ csv \in Files
    /\ pc = "detail"
    /\ df = LET loaded == read_csv(csv)
                monthly == SetColumn(loaded, "month", MonthColumn(loaded))
            IN  SetColumn(monthly, "ata_chapter", AtaColumn(monthly))
    /\ total_unsc_removal = 0 /\ total_components = 0 /\ total_downtime = 0
    /\ mtbur = <<>> /\ best_idx = "" /\ worst_idx = ""
    /\ monthly_failure = <<>> /\ failure_per_ata = <<>>
    /\ pareto = <<>> /\ cumulative_percent = <<>> /\ avg_downtime = <<>>
    /\ components = {} /\ trend = <<>>
    /\ selected_comp = "" /\ comp_data = <<>>
    /\ comp_total_removal = 0 /\ comp_total_downtime = 0
    /\ comp_mtbur = Float(0) /\ monthly_trend = <<>>

DetailOfAny ==
    /\ pc = "detail"
    /\ \E comp \in AnyComponent : ShowDetail(comp)
    /\ pc' = "done"
    /\ UNCHANGED <<csv, df, total_unsc_removal, total_components, total_downtime,
                   mtbur, best_idx, worst_idx, monthly_failure, failure_per_ata,
                   pareto, cumulative_percent, avg_downtime, components, trend>>

DetailSpec == DetailInit /\ [][DetailOfAny]_vars

-----------------------------------------------------------------------------
(* Properties *)

Sections == <<"load", "kpis", "month", "ata", "pareto", "mttr", "trend", "detail", "done">>

\* the script has run the section and has not raised
Ran(section) ==
    /\ pc # "exception"
    /\ Position(Sections, pc) > Position(Sections, section)

\* the summary section has assigned the KPIs and mtbur (it raises after that on
\* an empty table)
RanKPIs == pc = "exception" \/ Ran("kpis")

RECURSIVE SumOver(_, _)
SumOver(f, S) ==
    IF S = {} THEN 0
    ELSE LET x == CHOOSE y \in S : TRUE IN f[x] + SumOver(f, S \ {x})

RowsOf(name) == {i \in 1..Len(csv.records) : csv.records[i][1] = name}
NamesInFile == {csv.records[i][1] : i \in 1..Len(csv.records)}
HoursOf(name) == SumOver([i \in RowsOf(name) |-> csv.records[i][4]], RowsOf(name))
RemovalsOf(name) == SumOver([i \in RowsOf(name) |-> csv.records[i][5]], RowsOf(name))
RemovalsInFile == SumOver([i \in 1..Len(csv.records) |-> csv.records[i][5]], 1..Len(csv.records))
DowntimeInFile == SumOver([i \in 1..Len(csv.records) |-> csv.records[i][6]], 1..Len(csv.records))
IndexSet(series) == {series[i].index : i \in 1..Len(series)}
ListsOnce(series, S) == IndexSet(series) = S /\ Len(series) = Cardinality(S)

\* C1: mtbur holds one entry per component name of the table, its value
\* sum(hours_since_install) / max(sum(unscheduled_removal), 1) over the
\* component's rows; a component without removals reports exactly its summed
\* hours, and no entry is the result of a division by zero.
C1_MtburByComponent ==
    RanKPIs =>
        /\ ListsOnce(mtbur, NamesInFile)
        /\ \A i \in 1..Len(mtbur) :
              LET g == mtbur[i].index
                  m == mtbur[i].value
              IN  /\ IsFinite(m)
                  /\ m.num * Max(RemovalsOf(g), 1) = HoursOf(g) * m.den
                  /\ RemovalsOf(g) = 0 => FloatEq(m, Float(HoursOf(g)))

C1_Witness ==
    /\ RanKPIs
    /\ \E i, j \in 1..Len(mtbur) :
          /\ RemovalsOf(mtbur[i].index) = 0 /\ HoursOf(mtbur[i].index) > 0
          /\ RemovalsOf(mtbur[j].index) >= 2
          /\ FloatEq(mtbur[j].value, Float(175))

\* C2: when the table holds at least one removal, the cumulative percentages
\* of the Pareto series never decrease along the series and end at 100.
C2_CumulativePercent ==
    (Ran("pareto") /\ RemovalsInFile > 0) =>
        /\ Len(cumulative_percent) = Len(pareto)
        /\ \A i \in 1..(Len(cumulative_percent) - 1) :
              FloatGeq(cumulative_percent[i + 1].value, cumulative_percent[i].value)
        /\ cumulative_percent # <<>>
        /\ FloatEq(cumulative_percent[Len(cumulative_percent)].value, Float(100))

C2_Witness ==
    /\ Ran("pareto")
    /\ RemovalsInFile > 0
    /\ Len(cumulative_percent) >= 2
    /\ FloatLess(cumulative_percent[1].value, cumulative_percent[2].value)
    /\ FloatLess(Float(0), cumulative_percent[1].value)

\* C3: on a non-empty table of 0/1 removal flags, total_unsc_removal is the
\* number of rows flagged 1, total_components the number of distinct
\* component names and total_downtime the sum of downtime_hours.
C3_TotalKpis ==
    (/\ RanKPIs
     /\ csv.records # <<>>
     /\ \A i \in 1..Len(csv.records) : csv.records[i][5] \in {0, 1}) =>
        /\ total_unsc_removal = Cardinality({i \in 1..Len(csv.records) : csv.records[i][5] = 1})
        /\ total_components = Cardinality(NamesInFile)
        /\ total_downtime = DowntimeInFile

C3_Witness ==
    /\ RanKPIs
    /\ Len(csv.records) > Cardinality(NamesInFile)
    /\ Cardinality(NamesInFile) = 2
    /\ total_unsc_removal = 2
    /\ total_downtime = 8

\* C4: on an empty table the summary section yields three zero KPIs and
\* completes without raising.
C4_EmptyTableKpis ==
    (csv.records = <<>> /\ pc \notin {"load", "kpis"}) =>
        /\ total_unsc_removal = 0 /\ total_components = 0 /\ total_downtime = 0
        /\ pc # "exception"

\* C5: the detail of a component name that matches no row has zero removals,
\* zero downtime and an MTBUR of 0 (0 / 1), and is computed without a fault.
C5_AbsentComponentDetail ==
    (pc = "done" /\ selected_comp \notin KeySet(df.rows, "component_name")) =>
        /\ comp_data = <<>>
        /\ comp_total_removal = 0
        /\ comp_total_downtime = 0
        /\ IsFinite(comp_mtbur)
        /\ FloatEq(comp_mtbur, Float(0))

C5_Witness ==
    /\ pc = "done"
    /\ df.rows # <<>>
    /\ selected_comp = "X"
    /\ selected_comp \notin KeySet(df.rows, "component_name")

\* C6: when no row of the table is a removal, every cumulative percentage of
\* the Pareto series is a defined number.
C6_ZeroTotalPareto ==
    (Ran("pareto") /\ RemovalsInFile = 0) =>
        \A i \in 1..Len(cumulative_percent) : IsFinite(cumulative_percent[i].value)

UntouchedColumns ==
    {"component_name", "failure_date", "hours_since_install",
     "unscheduled_removal", "downtime_hours"}

C8_BestWorst ==
    Ran("kpis") =>
        /\ best_idx \in IndexSet(mtbur) /\ worst_idx \in IndexSet(mtbur)
        /\ \A i \in 1..Len(mtbur) :
              LET g == mtbur[i].index
                  m == TrueDiv(HoursOf(g), Max(RemovalsOf(g), 1))
                  best == TrueDiv(HoursOf(best_idx), Max(RemovalsOf(best_idx), 1))
                  worst == TrueDiv(HoursOf(worst_idx), Max(RemovalsOf(worst_idx), 1))
              IN  /\ FloatGeq(best, m)
                  /\ FloatGeq(m, worst)
                  /\ FloatEq(m, best) => (g = best_idx \/ NameLess(best_idx, g))
                  /\ FloatEq(m, worst) => (g = worst_idx \/ NameLess(worst_idx, g))
        /\ csv.records = ExampleRecords =>
              /\ FloatEq(Lookup(mtbur, "A"), Float(175))
              /\ FloatEq(Lookup(mtbur, "B"), Float(80))
              /\ best_idx = "A" /\ worst_idx = "B"

C8_Witness ==
    /\ Ran("kpis")
    /\ Len(mtbur) = 2
    /\ FloatEq(mtbur[1].value, mtbur[2].value)
    /\ csv.records[1][1] = "B"
    /\ best_idx = "A" /\ worst_idx = "A"

ParetoDescending ==
    /\ ListsOnce(pareto, NamesInFile)
    /\ \A i \in 1..Len(pareto) : pareto[i].value = RemovalsOf(pareto[i].index)
    /\ \A i \in 1..(Len(pareto) - 1) : pareto[i].value >= pareto[i + 1].value

\* C9 as stated: the Pareto series lists every component once, by descending
\* removals, components with equal removals in component_name (group) order.
C9_ParetoStable ==
    Ran("pareto") =>
        /\ ParetoDescending
        /\ \A i, j \in 1..Len(pareto) :
              (i < j /\ pareto[i].value = pareto[j].value)
                 => NameLess(pareto[i].index, pareto[j].index)

\* C9, amended: the Pareto series lists every component of the table exactly
\* once with its total removals, by descending total; the order among
\* components with equal totals is not determined.
C9_ParetoDescending ==
    Ran("pareto") => ParetoDescending

C9_Witness ==
    /\ Ran("pareto")
    /\ Len(pareto) = 2
    /\ pareto[1].value > pareto[2].value
    /\ NameLess(pareto[2].index, pareto[1].index)

AllSelected == components = NamesInFile

\* C10: the monthly series, the ATA series and the Pareto series each sum to
\* total_unsc_removal, and the trends of all components together give, month
\* by month, the monthly series.
C10_RemovalsConserved ==
    /\ Ran("month") => SeqSum(ValuesOf(monthly_failure)) = total_unsc_removal
    /\ Ran("ata") => SeqSum(ValuesOf(failure_per_ata)) = total_unsc_removal
    /\ Ran("pareto") => SeqSum(ValuesOf(pareto)) = total_unsc_removal
    /\ (Ran("trend") /\ AllSelected) =>
          \A m \in 1..Len(month_order) :
             SumOver([c \in components |-> Lookup(trend[c], month_order[m])], components)
                = Lookup(monthly_failure, month_order[m])

C10_Witness ==
    /\ Ran("trend")
    /\ AllSelected
    /\ Cardinality(components) = 2
    /\ Len(failure_per_ata) = 2
    /\ total_unsc_removal = 2
    /\ Lookup(monthly_failure, "Jan") = 1
    /\ Lookup(monthly_failure, "Feb") = 1
    /\ \A c \in components : SeqSum(ValuesOf(trend[c])) = 1

====
